---- MODULE Spec2Model ----
(***************************************************************************)
(* MongoDBWallet (lib/wallet.js): a key-value credential store kept as     *)
(* documents {name, path, valueBase64 | valueString} in one MongoDB        *)
(* collection.  Several wallet instances, each with its own namePrefix,    *)
(* share the collection.  Every wallet method is one round trip to the      *)
(* collection and is one action here; getAll is a listNames followed by    *)
(* one get per listed key and is a sequence of actions, so that other      *)
(* callers' operations interleave with it.  In Spec the calls on the        *)
(* collection come one after another; SpecRace has the puts of independent  *)
(* callers in flight together, where an upsert that matches no document    *)
(* is a query and then an insert on the collection.                        *)
(***************************************************************************)
EXTENDS Integers, Sequences, FiniteSets, Bags

VARIABLES
    namePrefix,  \* this.namePrefix of each wallet instance
    connection,  \* this.connection of each wallet instance: the uri it is open on
    options,     \* history: the options the last constructor call was given
    store,       \* the documents of the collection (a bag: _id left out)
    pending,     \* the upserts that found no document and have yet to insert
    last,        \* the settled promise of the operation that completed last
    ga,          \* the getAll call in flight: its keys, position and Map
    written,     \* history: the value last put under (path, name), if any
    hist         \* history: the types of the last call's value and of what it replaced

vars == <<namePrefix, connection, options, store, pending, last, ga, written, hist>>

----------------------------------------------------------------------------
(* Bounds of the model *)

\* longest text value put in Spec
MaxStrLen == 1
\* longest Buffer put in Spec
MaxBufLen == 1
\* longest text value put in SpecOne
MaxWideStrLen == 2
\* longest Buffer put in SpecOne
MaxWideBufLen == 3
\* most upserts in flight at a time in SpecRace
MaxPending == 2

----------------------------------------------------------------------------
(* Values *)

\* a call made without the name argument
NoArg == "<undefined>"

Wallets == {"alpha", "beta"}
Names == {NoArg, "", "k1", "k2"}
\* the names each wallet is called with in Spec
CallNames(w) == IF w = "alpha" THEN {NoArg, "k1", "k2"} ELSE {"k1"}
Keys == {"k1", "k2"}
Paths == {"A", "B"}

\* characters are character codes; bytes are 0..255
SeqsUpTo(S, n) == UNION {[1..m -> S] : m \in 0..n}

Buf(b) == [type |-> "Buffer", data |-> b]
Str(s) == [type |-> "string", data |-> s]
StrObj(s) == [type |-> "String", data |-> s]
Other(t) == [type |-> t, data |-> <<>>]
NoValue == [type |-> "none", data |-> <<>>]

\* values that are neither a Buffer nor a string: put(k), put(k, new Umbrella()), put(k, 7)
OtherValues == {Other("undefined"), Other("object"), Other("number")}

\* the values put in Spec

\* "A"
TextChars == {65}
TextValues == {Str(s) : s \in SeqsUpTo(TextChars, MaxStrLen)}
BufferValues == {Buf(b) : b \in SeqsUpTo({255}, MaxBufLen)}
Values == TextValues \cup BufferValues \cup {Other("object")}

\* the values put in SpecOne; the characters are "A", "=", " "
WideChars == {65, 61, 32}
WideBytes == {0, 129, 255}
WideValues == {Str(s) : s \in SeqsUpTo(WideChars, MaxWideStrLen)}
                 \cup {StrObj(<<>>), StrObj(<<65, 65, 61, 61>>)}
                 \cup {Buf(b) : b \in SeqsUpTo(WideBytes, MaxWideBufLen)}
                 \cup OtherValues

----------------------------------------------------------------------------
(* value.toString('base64') and Buffer.from(str, 'base64') *)

\* the character of a 6-bit group: A-Z a-z 0-9 + /
B64Char(i) ==
    IF i < 26 THEN 65 + i
    ELSE IF i < 52 THEN 71 + i
    ELSE IF i < 62 THEN i - 4
    ELSE IF i = 62 THEN 43 ELSE 47

\* "="
Pad == 61

\* B64Encode with the top two bits of every third byte dropped
RECURSIVE B64EncodeLosesBits(_)
B64EncodeLosesBits(b) ==
    IF Len(b) = 0 THEN <<>>
    ELSE IF Len(b) = 1 THEN
        <<B64Char(b[1] \div 4), B64Char((b[1] % 4) * 16), Pad, Pad>>
    ELSE IF Len(b) = 2 THEN
        <<B64Char(b[1] \div 4), B64Char((b[1] % 4) * 16 + b[2] \div 16),
          B64Char((b[2] % 16) * 4), Pad>>
    ELSE
        <<B64Char(b[1] \div 4), B64Char((b[1] % 4) * 16 + b[2] \div 16),
          B64Char((b[2] % 16) * 4), B64Char(b[3] % 64)>>
        \o B64EncodeLosesBits(SubSeq(b, 4, Len(b)))

RECURSIVE B64Encode(_)
B64Encode(b) ==
    IF Len(b) = 0 THEN <<>>
    ELSE IF Len(b) = 1 THEN
        <<B64Char(b[1] \div 4), B64Char((b[1] % 4) * 16), Pad, Pad>>
    ELSE IF Len(b) = 2 THEN
        <<B64Char(b[1] \div 4), B64Char((b[1] % 4) * 16 + b[2] \div 16),
          B64Char((b[2] % 16) * 4), Pad>>
    ELSE
        <<B64Char(b[1] \div 4), B64Char((b[1] % 4) * 16 + b[2] \div 16),
          B64Char((b[2] % 16) * 4 + b[3] \div 64), B64Char(b[3] % 64)>>
        \o B64Encode(SubSeq(b, 4, Len(b)))

\* the 6-bit group of a character, or 64 for a character outside the alphabet
\* (the decoder also reads the URL-safe "-" and "_")
Unbase64(c) ==
    IF c >= 65 /\ c <= 90 THEN c - 65
    ELSE IF c >= 97 /\ c <= 122 THEN c - 71
    ELSE IF c >= 48 /\ c <= 57 THEN c + 4
    ELSE IF c = 43 \/ c = 45 THEN 62
    ELSE IF c = 47 \/ c = 95 THEN 63
    ELSE 64

\* the decoder skips every character outside the alphabet, "=" included
RECURSIVE Sextets(_)
Sextets(s) ==
    IF Len(s) = 0 THEN <<>>
    ELSE IF Unbase64(s[1]) < 64 THEN <<Unbase64(s[1])>> \o Sextets(Tail(s))
    ELSE Sextets(Tail(s))

RECURSIVE DecodeGroups(_)
DecodeGroups(x) ==
    IF Len(x) < 2 THEN <<>>
    ELSE IF Len(x) = 2 THEN <<x[1] * 4 + x[2] \div 16>>
    ELSE IF Len(x) = 3 THEN
        <<x[1] * 4 + x[2] \div 16, (x[2] % 16) * 16 + x[3] \div 4>>
    ELSE
        <<x[1] * 4 + x[2] \div 16, (x[2] % 16) * 16 + x[3] \div 4,
          (x[3] % 4) * 64 + x[4]>>
        \o DecodeGroups(SubSeq(x, 5, Len(x)))

B64Decode(s) == DecodeGroups(Sextets(s))

----------------------------------------------------------------------------
(* The collection behind this.wallet (the mongoose model) *)

\* a document matches a filter when it has every field of the filter, equal
Matches(doc, filter) ==
    \A f \in DOMAIN filter : f \in DOMAIN doc /\ doc[f] = filter[f]

Matching(coll, filter) == {d \in BagToSet(coll) : Matches(d, filter)}

\* Update without overwrite: the fields of card are set on the matching
\* document, which keeps its other fields
UpdateMerges(coll, filter, card) ==
    IF {d \in BagToSet(coll) : Matches(d, filter)} = {}
    THEN {coll (+) SetToBag({card})}
    ELSE {(coll (-) SetToBag({d}))
              (+) SetToBag({[f \in DOMAIN d \cup DOMAIN card |->
                                IF f \in DOMAIN card THEN card[f] ELSE d[f]]}) :
             d \in {e \in BagToSet(coll) : Matches(e, filter)}}

\* Update that inserts card whether or not a document matches
UpdateInserts(coll, filter, card) == {coll (+) SetToBag({card})}

\* update(filter, card, {upsert: true, overwrite: true}): one matching
\* document is replaced by card as a whole; with no match card is inserted.
\* The set of collections the call may leave.
Update(coll, filter, card) ==
    IF Matching(coll, filter) = {}
    THEN {coll (+) SetToBag({card})}
    ELSE {(coll (-) SetToBag({d})) (+) SetToBag({card}) :
             d \in Matching(coll, filter)}

\* RemoveMatching that looks at the name alone
RemoveMatchingByName(coll, filter) ==
    [d \in {e \in BagToSet(coll) : e.name # filter.name} |-> coll[d]]

\* remove(filter): every matching document is deleted
RemoveMatching(coll, filter) ==
    [d \in {e \in BagToSet(coll) : ~Matches(e, filter)} |-> coll[d]]

\* the orders in which find(filter) may return the matching documents
RECURSIVE BagSeqs(_)
BagSeqs(b) ==
    IF BagToSet(b) = {} THEN {<<>>}
    ELSE UNION {{<<d>> \o t : t \in BagSeqs(b (-) SetToBag({d}))} :
                   d \in BagToSet(b)}

Find(coll, filter) ==
    BagSeqs([d \in Matching(coll, filter) |-> coll[d]])

----------------------------------------------------------------------------
(* The wallet's own computations *)

\* Falsy that takes the empty name for a name
FalsyUndefinedOnly(name) == name = NoArg

\* !name
Falsy(name) == name = NoArg \/ name = ""

IsBuffer(value) == value.type = "Buffer"
\* IsString that takes every value but undefined for a string
IsStringAny(value) == value.type # "undefined"

IsString(value) == value.type = "String" \/ value.type = "string"

\* KeyFilter without the path
KeyFilterNoPath(w, name) == [name |-> name]

\* the filter of put, remove, contains and get
KeyFilter(w, name) == [name |-> name, path |-> namePrefix[w]]

\* PathFilter without the path: every document matches
PathFilterNone(w) == <<>>

\* the filter of listNames
PathFilter(w) == [path |-> namePrefix[w]]

\* Card that sets no value field for an empty value
CardSkipsEmpty(w, name, value) ==
    IF value.data = <<>> THEN [name |-> name, path |-> namePrefix[w]]
    ELSE IF IsBuffer(value)
    THEN [name |-> name, path |-> namePrefix[w],
          valueBase64 |-> B64Encode(value.data)]
    ELSE [name |-> name, path |-> namePrefix[w], valueString |-> value.data]

\* the document put builds for a value it accepts; the String schema type
\* stores a String object as its primitive string
Card(w, name, value) ==
    IF IsBuffer(value)
    THEN [name |-> name, path |-> namePrefix[w],
          valueBase64 |-> B64Encode(value.data)]
    ELSE [name |-> name, path |-> namePrefix[w], valueString |-> value.data]

\* what get makes of the document it found
HasKnownType(card) ==
    "valueBase64" \in DOMAIN card \/ "valueString" \in DOMAIN card

\* CardData that base64-decodes whichever value field it finds
CardDataAlwaysDecodes(card) ==
    IF "valueBase64" \in DOMAIN card THEN Buf(B64Decode(card.valueBase64))
    ELSE Buf(B64Decode(card.valueString))

CardData(card) ==
    IF "valueBase64" \in DOMAIN card THEN Buf(B64Decode(card.valueBase64))
    ELSE Str(card.valueString)

\* listNames' result.map(elt => elt.name)
RECURSIVE NamesOf(_)
NamesOf(docs) ==
    IF Len(docs) = 0 THEN <<>> ELSE <<Head(docs).name>> \o NamesOf(Tail(docs))

NameMissing == "Name must be specified"
UnknownType == "Unkown type being stored"
KeyMissing == "The specified key does not exist"

\* a settled promise: what was called, how it settled, how many calls it
\* made on the collection
Resolved(op, w, name, result, queries) ==
    [op |-> op, wallet |-> w, name |-> name,
     status |-> "resolved", message |-> "", result |-> result,
     queries |-> queries]

Rejected(op, w, name, message, queries) ==
    [op |-> op, wallet |-> w, name |-> name,
     status |-> "rejected", message |-> message, result |-> NoValue,
     queries |-> queries]

Idle == [pc |-> "idle", wallet |-> "alpha", keys |-> <<>>, results |-> <<>>,
         queries |-> 0]

\* MapSet that keeps the last entry only
MapSetReplaces(m, key, value) == [k \in {key} |-> value]

\* results.set(key, value) on the Map getAll builds
MapSet(m, key, value) ==
    [k \in DOMAIN m \cup {key} |-> IF k = key THEN value ELSE m[k]]

----------------------------------------------------------------------------
(* The constructor *)

Uri == "mongodb://localhost:27017/wallet"

\* new MongoDBWallet() and new MongoDBWallet(null)
NoOptions == [present |-> FALSE, uri |-> NoArg, collectionName |-> NoArg,
              namePrefix |-> NoArg]

\* the options given to the constructor: each field absent, empty or set
Options ==
    {NoOptions} \cup [present : {TRUE}, uri : {NoArg, "", Uri},
                      collectionName : {NoArg, "", "wallet"},
                      namePrefix : {NoArg, ""} \cup Paths]

\* the options of a wallet on the shared collection
Config(path) == [present |-> TRUE, uri |-> Uri, collectionName |-> "wallet",
                 namePrefix |-> path]

\* ConstructorError with the namePrefix check ahead of the collectionName check
ConstructorErrorReordered(o) ==
    IF ~o.present THEN "Need configuration"
    ELSE IF Falsy(o.uri) THEN "Need an URI to connect to MongoDB"
    ELSE IF Falsy(o.namePrefix) THEN "Need a namePrefix in options"
    ELSE IF Falsy(o.collectionName) THEN "Need a collection name for the wallet"
    ELSE ""

\* the message of the Error the constructor throws, "" when it throws none
ConstructorError(o) ==
    IF ~o.present THEN "Need configuration"
    ELSE IF Falsy(o.uri) THEN "Need an URI to connect to MongoDB"
    ELSE IF Falsy(o.collectionName) THEN "Need a collection name for the wallet"
    ELSE IF Falsy(o.namePrefix) THEN "Need a namePrefix in options"
    ELSE ""

----------------------------------------------------------------------------
(* Construction: two wallets on one collection, no document yet *)

\* history of the last call: the type of the value it was given and the type
\* of the value it replaced or removed
NoHist == [vtype |-> "none", replaced |-> "none"]

Init ==
    /\ namePrefix = [w \in Wallets |-> IF w = "alpha" THEN "A" ELSE "B"]
    /\ connection = [w \in Wallets |-> Uri]
    /\ options = Config("A")
    /\ store = EmptyBag
    /\ pending = EmptyBag
    /\ last = Resolved("new", "alpha", NoArg, NoValue, 0)
    /\ ga = Idle
    /\ written = [k \in Paths \X Names |-> NoValue]
    /\ hist = NoHist

----------------------------------------------------------------------------
(* The operations *)

\* w = new MongoDBWallet(o): an Error thrown leaves w as it was
New(w, o) ==
    /\ IF ConstructorError(o) # "" THEN
           /\ last' = Rejected("new", w, NoArg, ConstructorError(o), 0)
           /\ UNCHANGED <<namePrefix, connection>>
       ELSE
           /\ namePrefix' = [namePrefix EXCEPT ![w] = o.namePrefix]
           /\ connection' = [connection EXCEPT ![w] = o.uri]
           /\ last' = Resolved("new", w, NoArg, NoValue, 0)
    /\ options' = o
    /\ hist' = NoHist
    /\ UNCHANGED <<store, pending, ga, written>>

Put(w, name, value) ==
    /\ IF Falsy(name) THEN
           /\ last' = Rejected("put", w, name, NameMissing, 0)
           /\ hist' = [vtype |-> value.type, replaced |-> "none"]
           /\ UNCHANGED <<store, written>>
       ELSE IF IsBuffer(value) \/ IsString(value) THEN
           /\ store' \in Update(store, KeyFilter(w, name), Card(w, name, value))
           /\ last' = Resolved("put", w, name, NoValue, 1)
           /\ written' = [written EXCEPT ![<<namePrefix[w], name>>] = value]
           /\ hist' = [vtype |-> value.type,
                       replaced |-> written[<<namePrefix[w], name>>].type]
       ELSE
           /\ last' = Rejected("put", w, name, UnknownType, 0)
           /\ hist' = [vtype |-> value.type, replaced |-> "none"]
           /\ UNCHANGED <<store, written>>
    /\ UNCHANGED <<namePrefix, connection, options, pending, ga>>

\* Remove that rejects when the key has no document
RemoveStrict(w, name) ==
    /\ IF Falsy(name) THEN
           /\ last' = Rejected("remove", w, name, NameMissing, 0)
           /\ hist' = NoHist
           /\ UNCHANGED <<store, written>>
       ELSE IF Matching(store, KeyFilter(w, name)) = {} THEN
           /\ last' = Rejected("remove", w, name, KeyMissing, 1)
           /\ hist' = NoHist
           /\ UNCHANGED <<store, written>>
       ELSE
           /\ store' = RemoveMatching(store, KeyFilter(w, name))
           /\ last' = Resolved("remove", w, name, NoValue, 1)
           /\ written' = [written EXCEPT ![<<namePrefix[w], name>>] = NoValue]
           /\ hist' = [vtype |-> "none",
                       replaced |-> written[<<namePrefix[w], name>>].type]
    /\ UNCHANGED <<namePrefix, connection, options, pending, ga>>

\* put by a caller that does not wait for the puts of others: update with
\* upsert replaces a matching document in one step; when none matches, the
\* collection has run the query and the insert is yet to come
PutRace(w, name, value) ==
    IF \/ Falsy(name)
       \/ ~(IsBuffer(value) \/ IsString(value))
       \/ Matching(store, KeyFilter(w, name)) # {}
    THEN Put(w, name, value)
    ELSE /\ BagCardinality(pending) < MaxPending
         /\ pending' = pending
                (+) SetToBag({[wallet |-> w, name |-> name, value |-> value]})
         /\ UNCHANGED <<namePrefix, connection, options, store, last, ga,
                        written, hist>>

\* the insert of an upsert that matched no document: the collection has no
\* unique index on (name, path), so it goes through whatever is there by now
PutInsert ==
    \E p \in BagToSet(pending) :
        /\ pending' = pending (-) SetToBag({p})
        /\ store' = store (+) SetToBag({Card(p.wallet, p.name, p.value)})
        /\ last' = Resolved("put", p.wallet, p.name, NoValue, 1)
        /\ written' = [written EXCEPT ![<<namePrefix[p.wallet], p.name>>] = p.value]
        /\ hist' = [vtype |-> p.value.type,
                    replaced |-> written[<<namePrefix[p.wallet], p.name>>].type]
        /\ UNCHANGED <<namePrefix, connection, options, ga>>

Remove(w, name) ==
    /\ IF Falsy(name) THEN
           /\ last' = Rejected("remove", w, name, NameMissing, 0)
           /\ hist' = NoHist
           /\ UNCHANGED <<store, written>>
       ELSE
           /\ store' = RemoveMatching(store, KeyFilter(w, name))
           /\ last' = Resolved("remove", w, name, NoValue, 1)
           /\ written' = [written EXCEPT ![<<namePrefix[w], name>>] = NoValue]
           /\ hist' = [vtype |-> "none",
                       replaced |-> written[<<namePrefix[w], name>>].type]
    /\ UNCHANGED <<namePrefix, connection, options, pending, ga>>

\* the arrays listNames() may resolve to on the collection as it is
ListOutcomes(w) == {NamesOf(docs) : docs \in Find(store, PathFilter(w))}

ListNames(w) ==
    /\ \E names \in ListOutcomes(w) :
           last' = Resolved("listNames", w, NoArg, names, 1)
    /\ hist' = NoHist
    /\ UNCHANGED <<namePrefix, connection, options, pending, store, ga, written>>

\* ContainsResult that looks for the name under any path
ContainsAnyPath(w, name) == Matching(store, [name |-> name]) # {}

\* (result !== null) of contains' findOne
ContainsResult(w, name) == Matching(store, KeyFilter(w, name)) # {}

Contains(w, name) ==
    /\ IF Falsy(name) THEN
           last' = Rejected("contains", w, name, NameMissing, 0)
       ELSE
           last' = Resolved("contains", w, name, ContainsResult(w, name), 1)
    /\ hist' = NoHist
    /\ UNCHANGED <<namePrefix, connection, options, pending, store, ga, written>>

\* GetOutcomes that resolves to an empty string for a key with no document
GetOutcomesDefault(op, w, name, before) ==
    IF Falsy(name) THEN {Rejected(op, w, name, NameMissing, before)}
    ELSE IF Matching(store, KeyFilter(w, name)) = {} THEN
        {Resolved(op, w, name, Str(<<>>), before + 1)}
    ELSE {IF HasKnownType(card)
          THEN Resolved(op, w, name, CardData(card), before + 1)
          ELSE Rejected(op, w, name, UnknownType, before + 1) :
             card \in Matching(store, KeyFilter(w, name))}

\* the promises get(name) may settle to on the collection as it is
GetOutcomes(op, w, name, before) ==
    IF Falsy(name) THEN {Rejected(op, w, name, NameMissing, before)}
    ELSE IF Matching(store, KeyFilter(w, name)) = {} THEN
        {Rejected(op, w, name, KeyMissing, before + 1)}
    ELSE {IF HasKnownType(card)
          THEN Resolved(op, w, name, CardData(card), before + 1)
          ELSE Rejected(op, w, name, UnknownType, before + 1) :
             card \in Matching(store, KeyFilter(w, name))}

\* Get that takes the document it reads out of the collection
GetConsumes(w, name) ==
    /\ last' \in GetOutcomes("get", w, name, 0)
    /\ hist' = NoHist
    /\ store' = IF Falsy(name) THEN store
                ELSE RemoveMatching(store, KeyFilter(w, name))
    /\ UNCHANGED <<namePrefix, connection, options, pending, ga, written>>

Get(w, name) ==
    /\ last' \in GetOutcomes("get", w, name, 0)
    /\ hist' = NoHist
    /\ UNCHANGED <<namePrefix, connection, options, pending, store, ga, written>>

\* GetAllList that lists the names stored under every path
GetAllListAnyPath(w) ==
    /\ ga.pc = "idle"
    /\ \E keys \in {NamesOf(docs) : docs \in Find(store, <<>>)} :
           IF Len(keys) = 0 THEN
               /\ last' = Resolved("getAll", w, NoArg, <<>>, 1)
               /\ hist' = NoHist
               /\ ga' = ga
           ELSE
               /\ ga' = [pc |-> "get", wallet |-> w, keys |-> keys,
                         results |-> <<>>, queries |-> 1]
               /\ UNCHANGED <<last, hist>>
    /\ UNCHANGED <<namePrefix, connection, options, pending, store, written>>

\* getAll up to the end of its await of listNames; an empty list returns
GetAllList(w) ==
    /\ ga.pc = "idle"
    /\ \E keys \in ListOutcomes(w) :
           IF Len(keys) = 0 THEN
               /\ last' = Resolved("getAll", w, NoArg, <<>>, 1)
               /\ hist' = NoHist
               /\ ga' = ga
           ELSE
               /\ ga' = [pc |-> "get", wallet |-> w, keys |-> keys,
                         results |-> <<>>, queries |-> 1]
               /\ UNCHANGED <<last, hist>>
    /\ UNCHANGED <<namePrefix, connection, options, pending, store, written>>

\* GetAllGet that passes over a key whose get finds no document
GetAllGetSkips ==
    /\ ga.pc = "get"
    /\ \E got \in GetOutcomes("getAll", ga.wallet, Head(ga.keys), ga.queries) :
           LET results == IF got.status = "rejected" THEN ga.results
                          ELSE MapSet(ga.results, got.name, got.result)
           IN  IF got.status = "rejected" /\ got.message # KeyMissing THEN
                   /\ last' = got
                   /\ hist' = NoHist
                   /\ ga' = Idle
               ELSE IF Len(ga.keys) = 1 THEN
                   /\ last' = Resolved("getAll", ga.wallet, NoArg, results,
                                       got.queries)
                   /\ hist' = NoHist
                   /\ ga' = Idle
               ELSE
                   /\ ga' = [ga EXCEPT !.keys = Tail(ga.keys),
                                !.results = results,
                                !.queries = got.queries]
                   /\ UNCHANGED <<last, hist>>
    /\ UNCHANGED <<namePrefix, connection, options, pending, store, written>>

\* one turn of getAll's loop: get the next key, set it in the Map; a get that
\* rejects rejects getAll, and the last key's get returns the Map
GetAllGet ==
    /\ ga.pc = "get"
    /\ \E got \in GetOutcomes("getAll", ga.wallet, Head(ga.keys), ga.queries) :
           IF got.status = "rejected" THEN
               /\ last' = got
               /\ hist' = NoHist
               /\ ga' = Idle
           ELSE IF Len(ga.keys) = 1 THEN
               /\ last' = [got EXCEPT !.name = NoArg,
                              !.result = MapSet(ga.results, got.name, got.result)]
               /\ hist' = NoHist
               /\ ga' = Idle
           ELSE
               /\ ga' = [ga EXCEPT !.keys = Tail(ga.keys),
                            !.results = MapSet(ga.results, got.name, got.result),
                            !.queries = got.queries]
               /\ UNCHANGED <<last, hist>>
    /\ UNCHANGED <<namePrefix, connection, options, pending, store, written>>

Next ==
    \/ \E w \in Wallets : \E name \in CallNames(w), value \in Values :
           Put(w, name, value)
    \/ \E w \in Wallets : \E name \in CallNames(w) : Remove(w, name)
    \/ \E w \in Wallets : ListNames(w)
    \/ \E w \in Wallets : \E name \in CallNames(w) : Contains(w, name)
    \/ \E w \in Wallets : \E name \in CallNames(w) : Get(w, name)
    \/ \E w \in Wallets : GetAllList(w)
    \/ GetAllGet

Spec == Init /\ [][Next]_vars

\* a quiescent collection: no put and no remove while a getAll is in flight
NextQuiet ==
    \/ /\ ga.pc = "idle"
       /\ \E w \in Wallets : \E name \in CallNames(w), value \in Values :
              Put(w, name, value)
    \/ /\ ga.pc = "idle"
       /\ \E w \in Wallets : \E name \in CallNames(w) : Remove(w, name)
    \/ \E w \in Wallets : ListNames(w)
    \/ \E w \in Wallets : \E name \in CallNames(w) : Contains(w, name)
    \/ \E w \in Wallets : \E name \in CallNames(w) : Get(w, name)
    \/ \E w \in Wallets : GetAllList(w)
    \/ GetAllGet

SpecQuiet == Init /\ [][NextQuiet]_vars

\* no wallet yet
InitNew ==
    /\ namePrefix = [w \in Wallets |-> NoArg]
    /\ connection = [w \in Wallets |-> NoArg]
    /\ options = NoOptions
    /\ store = EmptyBag
    /\ pending = EmptyBag
    /\ last = Rejected("new", "alpha", NoArg, ConstructorError(NoOptions), 0)
    /\ ga = Idle
    /\ written = [k \in Paths \X Names |-> NoValue]
    /\ hist = NoHist

\* wallets are constructed from every kind of options, and used once made
NextNew ==
    \/ \E w \in Wallets, o \in Options : New(w, o)
    \/ \E w \in Wallets, value \in TextValues :
           namePrefix[w] # NoArg /\ Put(w, "k1", value)
    \/ \E w \in Wallets : namePrefix[w] # NoArg /\ Get(w, "k1")

SpecNew == InitNew /\ [][NextNew]_vars

\* independent callers of one wallet on one key, their puts in flight together
NextRace ==
    \/ \E value \in Values : PutRace("alpha", "k1", value)
    \/ PutInsert
    \/ Remove("alpha", "k1")
    \/ Get("alpha", "k1")
    \/ ListNames("alpha")

SpecRace == Init /\ [][NextRace]_vars

\* one wallet and one key, called with every kind of name and a wide range
\* of values
NextOne ==
    \/ \E name \in {NoArg, "", "k1"}, value \in WideValues :
           Put("alpha", name, value)
    \/ \E name \in {NoArg, "", "k1"} : Remove("alpha", name)
    \/ \E name \in {NoArg, "", "k1"} : Contains("alpha", name)
    \/ \E name \in {NoArg, "", "k1"} : Get("alpha", name)

SpecOne == Init /\ [][NextOne]_vars

----------------------------------------------------------------------------
(* Vocabulary of the properties *)

\* the documents stored under a path, and under a (path, name) pair
Under(path) == {d \in BagToSet(store) : d.path = path}
For(path, name) == {d \in Under(path) : d.name = name}

\* the (path, name) pair the last operation addressed
LastKey == <<namePrefix[last.wallet], last.name>>

\* the last operation was op, called with a name that is not empty
Called(op) == last.op = op /\ last.name \in Keys

\* what a get is to return for a value that was put
Returned(v) == IF v.type = "Buffer" THEN Buf(v.data) ELSE Str(v.data)

\* the characters of a base64 text: the alphabet, then at most two "="
IsBase64(s) ==
    /\ Len(s) % 4 = 0
    /\ \A i \in 1..Len(s) :
           \/ s[i] \in 65..90 \cup 97..122 \cup 48..57 \cup {43, 47}
           \/ s[i] = 61 /\ i > Len(s) - 2 /\ \A j \in i..Len(s) : s[j] = 61

----------------------------------------------------------------------------
(* C1: a get of a key whose last write was a put of a text value resolves
   to that same text, as a string. *)
C1_TextRoundTrip ==
    (Called("get") /\ written[LastKey].type \in {"string", "String"})
        => /\ last.status = "resolved"
           /\ last.result = Str(written[LastKey].data)

\* a text that reads as base64 came back as the text it was
C1_Witness ==
    /\ Called("get")
    /\ written[LastKey] = Str(<<65, 61>>)
    /\ last.result = Str(<<65, 61>>)

(* C2: a get of a key whose last write was a put of a Buffer resolves to a
   Buffer of the same bytes, the empty one included; the document holds the
   bytes as base64 text in valueBase64, four characters for every three
   bytes begun. *)
C2_BinaryRoundTrip ==
    /\ (Called("get") /\ written[LastKey].type = "Buffer")
           => /\ last.status = "resolved"
              /\ last.result = Buf(written[LastKey].data)
    /\ \A path \in Paths, name \in Keys :
           written[<<path, name>>].type = "Buffer"
               => /\ For(path, name) # {}
                  /\ \A d \in For(path, name) :
                         /\ "valueBase64" \in DOMAIN d
                         /\ IsBase64(d.valueBase64)
                         /\ Len(d.valueBase64) =
                                4 * ((Len(written[<<path, name>>].data) + 2) \div 3)

\* three bytes with bits set in every 6-bit group came back
C2_Witness ==
    /\ Called("get")
    /\ written[LastKey] = Buf(<<255, 129, 255>>)
    /\ last.result = Buf(<<255, 129, 255>>)

\* the empty Buffer came back as an empty Buffer
C2_WitnessEmpty ==
    /\ Called("get")
    /\ written[LastKey] = Buf(<<>>)
    /\ last.result = Buf(<<>>)

(* C3: a get resolves to the value of the latest put of its key, with that
   value's type, whatever was put there before; and the documents of a key
   carry the value field of the latest put and no other value field, so that
   after a Buffer then a text no valueBase64 is left. *)
C3_Overwrite ==
    /\ (Called("get") /\ written[LastKey] # NoValue)
           => /\ last.status = "resolved"
              /\ last.result = Returned(written[LastKey])
    /\ \A path \in Paths, name \in Keys :
           written[<<path, name>>] # NoValue
               => /\ For(path, name) # {}
                  /\ \A d \in For(path, name) :
                         DOMAIN d = {"name", "path",
                                     IF written[<<path, name>>].type = "Buffer"
                                     THEN "valueBase64" ELSE "valueString"}

\* a text was put over a Buffer and only valueString is stored
C3_Witness ==
    /\ Called("put")
    /\ last.status = "resolved"
    /\ hist.replaced = "Buffer"
    /\ hist.vtype = "string"
    /\ \A d \in For(LastKey[1], LastKey[2]) : "valueBase64" \notin DOMAIN d
    /\ For(LastKey[1], LastKey[2]) # {}

(* C4: what get, contains and listNames give a wallet is fixed by the puts
   and removes made under that wallet's own prefix (written records each
   write under the prefix of the wallet that made it), so a put under
   another prefix changes none of them, and a key held under both prefixes
   reads back under each as it was put there. *)
C4_Isolation ==
    \A w \in Wallets :
        /\ \A name \in Keys :
               /\ ContainsResult(w, name)
                      = (written[<<namePrefix[w], name>>] # NoValue)
               /\ \A got \in GetOutcomes("get", w, name, 0) :
                      IF written[<<namePrefix[w], name>>] = NoValue
                      THEN got.status = "rejected"
                      ELSE /\ got.status = "resolved"
                           /\ got.result
                                  = Returned(written[<<namePrefix[w], name>>])
        /\ \A names \in ListOutcomes(w) :
               {names[i] : i \in 1..Len(names)}
                   = {k \in Keys : written[<<namePrefix[w], k>>] # NoValue}

\* alpha put a key that beta holds with another value; beta still reads its own
C4_Witness ==
    /\ Called("put")
    /\ last.status = "resolved"
    /\ last.wallet = "alpha"
    /\ written[<<"B", last.name>>] # NoValue
    /\ Returned(written[<<"A", last.name>>]) # Returned(written[<<"B", last.name>>])
    /\ \A got \in GetOutcomes("get", "beta", last.name, 0) :
           got.result = Returned(written[<<"B", last.name>>])
    /\ For("A", "k2") # {}

NamedOps == {"put", "get", "remove", "contains"}

(* C5: put, get, remove and contains called without a name or with the
   empty name reject with "Name must be specified", whatever value put
   was given, without a call on the collection and with the documents left
   as they were. *)
C5_NameRequired ==
    /\ []((last.op \in NamedOps /\ last.name \in {NoArg, ""})
             => /\ last.status = "rejected"
                /\ last.message = "Name must be specified"
                /\ last.queries = 0)
    /\ [][(last'.op \in NamedOps /\ last'.name \in {NoArg, ""})
             => store' = store]_vars

\* put("", <a value of no supported type>) on a collection with a document
C5_Witness ==
    /\ last.op = "put"
    /\ last.name = ""
    /\ hist.vtype = "object"
    /\ last.message = "Name must be specified"
    /\ store # EmptyBag

SupportedTypes == {"Buffer", "string", "String"}

(* C6: a put with a name and a value that is neither a Buffer nor a string
   rejects, and leaves every document as it was. *)
C6_TypeRejected ==
    /\ []((Called("put") /\ hist.vtype \notin SupportedTypes)
             => last.status = "rejected")
    /\ [][(last'.op = "put" /\ last'.name \in Keys
              /\ hist'.vtype \notin SupportedTypes)
             => store' = store]_vars

\* the rejected put named a key that has a document, which is still there
C6_Witness ==
    /\ Called("put")
    /\ hist.vtype = "object"
    /\ last.status = "rejected"
    /\ written[LastKey] = Str(<<65>>)
    /\ \E d \in For(LastKey[1], LastKey[2]) : d.valueString = <<65>>

(* C7: a get with a name that has no document under the wallet's prefix
   rejects with "The specified key does not exist", and no get changes a
   document. *)
C7_GetMissing ==
    /\ []((Called("get") /\ For(LastKey[1], LastKey[2]) = {})
             => /\ last.status = "rejected"
                /\ last.message = "The specified key does not exist")
    /\ [][last'.op = "get" => store' = store]_vars

\* the key exists under the other prefix only
C7_Witness ==
    /\ Called("get")
    /\ last.wallet = "beta"
    /\ For("B", last.name) = {}
    /\ For("A", last.name) # {}
    /\ last.status = "rejected"

(* C8: a remove with a name resolves, whether or not the key has a
   document; when it has none the documents are left as they were; and after
   a remove the key has no document, so that a second remove changes
   nothing. *)
C8_RemoveIdempotent ==
    /\ [](Called("remove")
             => /\ last.status = "resolved"
                /\ For(LastKey[1], LastKey[2]) = {})
    /\ [][(/\ last'.op = "remove"
           /\ last'.name \in Keys
           /\ For(namePrefix[last'.wallet], last'.name) = {})
             => store' = store]_vars

\* a remove of a key that had no document, with other documents stored
C8_Witness ==
    /\ Called("remove")
    /\ last.status = "resolved"
    /\ hist.replaced = "none"
    /\ store # EmptyBag

(* C9: right after a remove of a key, contains gives false for it, get
   rejects with "The specified key does not exist" and listNames does not
   list it; and the remove leaves every document of another name or of
   another prefix as it was. *)
C9_RemoveExact ==
    /\ [](Called("remove")
             => /\ ~ContainsResult(last.wallet, last.name)
                /\ \A got \in GetOutcomes("get", last.wallet, last.name, 0) :
                       /\ got.status = "rejected"
                       /\ got.message = "The specified key does not exist"
                /\ \A names \in ListOutcomes(last.wallet) :
                       \A i \in 1..Len(names) : names[i] # last.name)
    /\ [][(last'.op = "remove" /\ last'.name \in Keys)
             => \A d \in BagToSet(store) \cup BagToSet(store') :
                    (d.name # last'.name \/ d.path # namePrefix[last'.wallet])
                        => CopiesIn(d, store') = CopiesIn(d, store)]_vars

\* a key that was put was removed; the other name and the other prefix stay
C9_Witness ==
    /\ Called("remove")
    /\ hist.replaced = "string"
    /\ last.name = "k1"
    /\ last.wallet = "alpha"
    /\ For("A", "k2") # {}
    /\ For("B", "k1") # {}
    /\ For("A", "k1") = {}

(* C10: with no document under the wallet's prefix, listNames resolves to
   the empty array, contains resolves to false for every name, and getAll
   resolves to the empty Map as soon as its listNames returns. *)
C10_EmptyStates ==
    /\ []((last.op = "listNames" /\ Under(namePrefix[last.wallet]) = {})
             => last.status = "resolved" /\ last.result = <<>>)
    /\ []((Called("contains") /\ Under(namePrefix[last.wallet]) = {})
             => last.status = "resolved" /\ last.result = FALSE)
    /\ [][\A w \in Wallets :
             (ga.pc = "idle" /\ Under(namePrefix[w]) = {})
                 => /\ ~(ga'.pc = "get" /\ ga'.wallet = w)
                    /\ (ga'.pc = "idle" /\ last'.op = "getAll"
                           /\ last'.wallet = w)
                           => /\ last'.status = "resolved"
                              /\ DOMAIN last'.result = {}]_vars

\* getAll found nothing under its prefix while the other prefix has documents
C10_Witness ==
    /\ last.op = "getAll"
    /\ last.status = "resolved"
    /\ DOMAIN last.result = {}
    /\ Under(namePrefix[last.wallet]) = {}
    /\ store # EmptyBag


(* C11: contains resolves to true exactly when a document with the name
   and the wallet's prefix exists, that is exactly when a get of the name
   would not reject with "The specified key does not exist"; in every
   state, for every wallet and name. *)
C11_ContainsExact ==
    /\ Called("contains")
           => /\ last.status = "resolved"
              /\ last.result = (For(LastKey[1], LastKey[2]) # {})
    /\ \A w \in Wallets, name \in Keys :
           /\ ContainsResult(w, name) = (For(namePrefix[w], name) # {})
           /\ ContainsResult(w, name)
                  = (\A got \in GetOutcomes("get", w, name, 0) :
                         got.message # "The specified key does not exist")

\* contains gave false for a name that the other prefix holds
C11_Witness ==
    /\ Called("contains")
    /\ last.wallet = "beta"
    /\ last.result = FALSE
    /\ For("A", last.name) # {}

(* C12: listNames resolves to the names that have a document under the
   wallet's prefix, each of them once, however often a name was put. *)
C12_ListExact ==
    /\ last.op = "listNames"
           => /\ last.status = "resolved"
              /\ {last.result[i] : i \in 1..Len(last.result)}
                     = {d.name : d \in Under(namePrefix[last.wallet])}
              /\ \A i, j \in 1..Len(last.result) :
                     last.result[i] = last.result[j] => i = j
    /\ \A w \in Wallets : \A names \in ListOutcomes(w) :
           /\ {names[i] : i \in 1..Len(names)}
                  = {k \in Keys : written[<<namePrefix[w], k>>] # NoValue}
           /\ \A i, j \in 1..Len(names) : names[i] = names[j] => i = j

\* a key was put a second time and listNames gives it once
C12_Witness ==
    /\ Called("put")
    /\ last.wallet = "alpha"
    /\ hist.replaced = "string"
    /\ hist.vtype = "string"
    /\ ListOutcomes("alpha") = {<<last.name>>}


(* C13: with no write while it runs, getAll resolves to a Map that has one
   entry for each name listNames gives and no other, the value of each being
   what get gives for that name. *)
C13_GetAllQuiescent ==
    last.op = "getAll"
        => /\ last.status = "resolved"
           /\ \A names \in ListOutcomes(last.wallet) :
                  /\ {names[i] : i \in 1..Len(names)} = DOMAIN last.result
                  /\ Len(names) = Cardinality(DOMAIN last.result)
           /\ DOMAIN last.result = {d.name : d \in Under(namePrefix[last.wallet])}
           /\ \A k \in DOMAIN last.result :
                  /\ GetOutcomes("get", last.wallet, k, 0) # {}
                  /\ \A got \in GetOutcomes("get", last.wallet, k, 0) :
                         got.status = "resolved" /\ got.result = last.result[k]

\* two keys of different types were put: a Map of two entries
C13_Witness ==
    /\ last.op = "getAll"
    /\ last.wallet = "alpha"
    /\ DOMAIN last.result = {"k1", "k2"}
    /\ last.result["k1"] = Str(<<65>>)
    /\ last.result["k2"] = Buf(<<255>>)
    /\ last.queries = 3


\* the message of the first of the constructor's four checks that fails
FirstFailure(o) ==
    IF ~o.present THEN "Need configuration"
    ELSE IF o.uri \in {NoArg, ""} THEN "Need an URI to connect to MongoDB"
    ELSE IF o.collectionName \in {NoArg, ""}
        THEN "Need a collection name for the wallet"
    ELSE IF o.namePrefix \in {NoArg, ""} THEN "Need a namePrefix in options"
    ELSE ""

(* C14: the constructor fails with the message of the first check that does
   not hold, in the order configuration, uri, collectionName, namePrefix,
   and then opens no connection and makes no wallet; options that pass the
   four checks make a wallet bound to their namePrefix, under which its
   puts are stored. *)
C14_ConstructorOrder ==
    /\ [](last.op = "new"
             => /\ last.message = FirstFailure(options)
                /\ (last.status = "resolved") = (FirstFailure(options) = "")
                /\ last.status = "resolved"
                       => /\ namePrefix[last.wallet] = options.namePrefix
                          /\ connection[last.wallet] = options.uri)
    /\ [](Called("put") /\ last.status = "resolved"
             => \E d \in BagToSet(store) :
                    d.name = last.name /\ d.path = namePrefix[last.wallet])
    /\ [][(last'.op = "new" /\ last'.status = "rejected")
             => namePrefix' = namePrefix /\ connection' = connection]_vars

\* collectionName and namePrefix both missing: the collectionName message,
\* and no connection
C14_Witness ==
    /\ last.op = "new"
    /\ options.uri = Uri
    /\ options.collectionName = ""
    /\ options.namePrefix = NoArg
    /\ last.message = "Need a collection name for the wallet"
    /\ connection[last.wallet] = NoArg


(* C15: the rejection of a put whose value is neither a Buffer nor a string,
   and the rejection of a get whose document has neither valueBase64 nor
   valueString, carry the message "Unknown type being stored". *)
C15_UnknownTypeMessage ==
    /\ (Called("put") /\ hist.vtype \notin SupportedTypes)
           => last.message = "Unknown type being stored"
    /\ (/\ Called("get")
        /\ \E d \in For(LastKey[1], LastKey[2]) :
               "valueBase64" \notin DOMAIN d /\ "valueString" \notin DOMAIN d)
           => last.message = "Unknown type being stored"


(* C16: every stored document has exactly one of valueBase64 and
   valueString, and no get, of a call or of getAll, rejects for a document
   of unknown type. *)
C16_OneValueField ==
    /\ \A d \in BagToSet(store) :
           ("valueBase64" \in DOMAIN d) # ("valueString" \in DOMAIN d)
    /\ last.op \in {"get", "getAll"} => last.message # "Unkown type being stored"
    /\ \A w \in Wallets, name \in Keys :
           \A got \in GetOutcomes("get", w, name, 0) :
               got.message # "Unkown type being stored"

\* documents of both kinds are stored, one of them put over the other kind
C16_Witness ==
    /\ \E d \in BagToSet(store) : "valueBase64" \in DOMAIN d
    /\ \E d \in BagToSet(store) : "valueString" \in DOMAIN d
    /\ Called("put")
    /\ hist.replaced = "Buffer"
    /\ hist.vtype = "string"


(* C17: the store holds at most one document for a name under a path, puts
   of one key in flight together included. *)
C17_KeyUnique ==
    \A path \in Paths, name \in Names :
        \A d \in For(path, name) : Cardinality(For(path, name)) = 1 /\ store[d] = 1

(* C18: once the puts of a key have all settled, get returns the value of
   the put whose write was applied last. *)
C18_LastWriteWins ==
    (/\ Called("get")
     /\ pending = EmptyBag
     /\ written[LastKey] # NoValue)
        => /\ last.status = "resolved"
           /\ last.result = Returned(written[LastKey])


(* C19: getAll gets the listed names only after listNames has completed, one
   query for each, and when the next listed key has no document any more,
   because it was removed since the listing, the turn of the loop that gets
   it rejects getAll with "The specified key does not exist": the key is not
   skipped and no mapping is returned. *)
C19_GetAllRemoved ==
    [][(ga.pc = "get" /\ ga' # ga)
          => /\ ga.queries = 1 + Cardinality(DOMAIN ga.results)
             /\ For(namePrefix[ga.wallet], Head(ga.keys)) = {}
                   => /\ ga'.pc = "idle"
                      /\ last'.op = "getAll"
                      /\ last'.status = "rejected"
                      /\ last'.message = "The specified key does not exist"
                      /\ last'.result = NoValue]_vars

\* getAll rejected at its second get: the key was listed, then removed
C19_Witness ==
    /\ last.op = "getAll"
    /\ last.status = "rejected"
    /\ last.message = "The specified key does not exist"
    /\ last.queries = 3
    /\ ga.pc = "idle"


\* the operations that read
ReadOps == {"get", "contains", "listNames", "getAll"}

(* C20: a step that settles get, contains, listNames or getAll, resolved or
   rejected, or that moves a getAll in flight, leaves every document of the
   collection as it was; the collection changes only in a step that resolves
   a put or a remove; and no step changes a wallet's namePrefix. *)
C20_ReadsHaveNoEffect ==
    [][/\ (last' # last /\ last'.op \in ReadOps) => store' = store
       /\ ga' # ga => store' = store
       /\ store' # store => /\ last'.op \in {"put", "remove"}
                            /\ last'.status = "resolved"
       /\ namePrefix' = namePrefix]_vars

\* a get was rejected for a missing key while both wallets hold documents
C20_Witness ==
    /\ last.op = "get"
    /\ last.status = "rejected"
    /\ last.message = "The specified key does not exist"
    /\ Under("A") # {}
    /\ Under("B") # {}


\* the names in an array of names
NameSet(keys) == {keys[i] : i \in 1..Len(keys)}

\* map after is map before with key set to the value the key holds now under
\* the prefix of the getAll in flight
SetToHeld(beforeMap, afterMap, key) ==
    /\ written[<<namePrefix[ga.wallet], key>>] # NoValue
    /\ DOMAIN afterMap = DOMAIN beforeMap \cup {key}
    /\ afterMap[key] = Returned(written[<<namePrefix[ga.wallet], key>>])
    /\ \A k \in DOMAIN beforeMap \ {key} : afterMap[k] = beforeMap[k]

(* C21: while other callers put and remove, the keys getAll goes through are
   the names that had a document under its prefix at the step its listNames
   ran, and each value in the mapping is the value its key held at the step
   of its get, a step between the start of getAll and its completion; the
   entries got before are kept as they were got, whatever was written since,
   and the mapping getAll resolves to is made of these entries only. *)
C21_GetAllPerKey ==
    [][/\ (ga.pc = "idle" /\ ga'.pc = "get")
            => /\ NameSet(ga'.keys) =
                      {d.name : d \in Under(namePrefix[ga'.wallet])}
               /\ DOMAIN ga'.results = {}
       /\ (ga.pc = "get" /\ ga'.pc = "get" /\ ga' # ga)
            => /\ SetToHeld(ga.results, ga'.results, Head(ga.keys))
               /\ ga'.keys = Tail(ga.keys)
               /\ ga'.wallet = ga.wallet
       /\ (ga.pc = "get" /\ ga'.pc = "idle" /\ last'.status = "resolved")
            => /\ last'.op = "getAll"
               /\ Len(ga.keys) = 1
               /\ SetToHeld(ga.results, last'.result, Head(ga.keys))]_vars

\* getAll resolved to a mapping of two keys whose first key was put again
\* after its get: the mapping is not the collection as getAll left it
C21_Witness ==
    /\ last.op = "getAll"
    /\ last.status = "resolved"
    /\ ga.pc = "idle"
    /\ DOMAIN last.result = {"k1", "k2"}
    /\ written[<<namePrefix[last.wallet], "k1">>] # NoValue
    /\ last.result["k1"] # Returned(written[<<namePrefix[last.wallet], "k1">>])
    /\ last.result["k2"] = Returned(written[<<namePrefix[last.wallet], "k2">>])

====
